---- MODULE Spec2Model ----
(***************************************************************************)
(* The task lifecycle managers of the A2A sample agents:                   *)
(*   samples/python/agents/langgraph/task_manager.py  (CurrencyAgent)      *)
(*   samples/python/agents/crewai/task_manager.py     (ImageGeneration)    *)
(* Both extend InMemoryTaskManager (common/server/task_manager.py); that   *)
(* base class, common/server/utils.py and the push-notification            *)
(* authenticator are modelled from their contract in spec.md (sections     *)
(* 4.1 - 4.3).                                                             *)
(*                                                                         *)
(* One behaviour is one server process: Init picks which of the two        *)
(* managers was constructed, every request is a coroutine (a "call") that  *)
(* advances from one await to the next.                                    *)
(***************************************************************************)
EXTENDS Naturals, Integers, Sequences, FiniteSets, TLC

\* ---------------------------------------------------------------- bounds
\* Number of requests (coroutines) one behaviour issues.
MaxCalls == 2
\* Number of distinct task ids the requests draw from.
MaxTasks == 2
\* Most intermediate items one agent stream yields before its final item.
MaxSteps == 2
\* Number of direct Task Store operations in the store-level specification.
MaxOps == 4

Calls == 1..MaxCalls
TaskIds == 1..MaxTasks

VARIABLES
    manager,                  \* "langgraph" | "crewai": the AgentTaskManager built
    tasks,                    \* self.tasks: dict task id -> Task
    task_messages,            \* self.task_messages: dict task id -> history
    push_notification_infos,  \* self.push_notification_infos: dict id -> url
    task_sse_subscribers,     \* self.task_sse_subscribers: dict id -> consumers
    lock,                     \* self.lock: 0 free, else the call that holds it
    calls,                    \* one record per request coroutine
    runs,                     \* one record per _run_streaming_agent task
    sse_queue,                \* consumer -> events enqueued and not yet read
    received,                 \* consumer -> events the SSE stream has yielded
    notified,                 \* call -> the POSTs its updates sent the webhook
    ret                       \* outcome of the last direct Task Store operation

vars == <<manager, tasks, task_messages, push_notification_infos,
          task_sse_subscribers, lock, calls, runs, sse_queue, received,
          notified, ret>>

\* ------------------------------------------------------------ data model
\* TaskState (common.types).
SUBMITTED == "SUBMITTED"
WORKING == "WORKING"
INPUT_REQUIRED == "INPUT_REQUIRED"
COMPLETED == "COMPLETED"
ERROR == "ERROR"
CANCELED == "CANCELED"

TaskStates == {SUBMITTED, WORKING, INPUT_REQUIRED, COMPLETED, ERROR, CANCELED}
TerminalStates == {COMPLETED, ERROR, CANCELED}

\* A message is [role, src]: src is the call whose request (role "user") or
\* whose agent result (role "agent") carries it.  NoMessage is None.
NoMessage == [role |-> "none", src |-> 0]
UserMessage(c) == [role |-> "user", src |-> c]
AgentMessage(c) == [role |-> "agent", src |-> c]

\* TaskStatus(state=..., message=...).
TaskStatus(state, message) == [state |-> state, message |-> message]

\* Artifact(parts=[content of call c's agent result]); a task's artifacts are
\* a sequence of these.
Artifact(c) == c

\* Task(id, status, artifacts)
Task(status, artifacts) == [status |-> status, artifacts |-> artifacts]

\* SUPPORTED_CONTENT_TYPES of the agent the manager drives.
SUPPORTED_CONTENT_TYPES ==
    IF manager = "langgraph" THEN {"text", "text/plain"}
    ELSE {"text", "text/plain", "image/png"}

\* Inputs of a request.
ModeChoices == {{"text"}, {"audio"}, {"audio", "text/plain"}}
PartKinds == {"text", "file"}
\* pushNotification: absent, present without url, or present with a url.
\* The receiver behind "owned" echoes the challenge nonce, the one behind
\* "foreign" does not.
Urls == {"owned", "foreign"}
PushChoices == {"absent", "nourl"} \cup Urls

\* ------------------------------------------------------------ Task Store
\* A dict update d[k] = v.
Put(d, k, v) == [x \in DOMAIN d \cup {k} |-> IF x = k THEN v ELSE d[x]]

StoreResult(err, t, m) == [err |-> err, tasks |-> t, task_messages |-> m]

\* upsert_task(params): create the task in SUBMITTED with the incoming
\* message, or append the incoming message to the existing task's history.
upsert_task(t, m, id, msg) ==
    IF id \in DOMAIN t
    THEN StoreResult("ok", t, Put(m, id, Append(m[id], msg)))
    ELSE StoreResult("ok",
                     Put(t, id, Task(TaskStatus(SUBMITTED, NoMessage), <<>>)),
                     Put(m, id, <<msg>>))

\* update_store(task_id, status, artifacts) of InMemoryTaskManager.
update_store(t, m, id, status, artifacts) ==
    IF id \notin DOMAIN t THEN StoreResult("TaskNotFound", t, m)
    ELSE IF t[id].status.state \in TerminalStates
    THEN StoreResult("InvalidTaskState", t, m)
    ELSE StoreResult("ok",
           Put(t, id, Task(status, t[id].artifacts \o artifacts)),
           IF status.message # NoMessage
           THEN Put(m, id, Append(m[id], status.message)) ELSE m)

\* task.artifacts.extend(artifacts) of _update_store, mutated to an
\* assignment that drops what was there.
ExtendArtifactsAssign(old, new) == new

\* crewai _update_store: task.artifacts.extend(artifacts)
ExtendArtifacts(old, new) == old \o new

\* crewai _update_store, mutated to create the task it does not find.
crew_update_store_create(t, m, id, status, artifacts) ==
    StoreResult("ok",
        Put(t, id, Task(status,
              IF id \in DOMAIN t THEN ExtendArtifacts(t[id].artifacts, artifacts)
              ELSE artifacts)),
        m)

\* crewai _update_store, mutated to append status.message to the history
\* whether it is present or None.
crew_update_store_always_history(t, m, id, status, artifacts) ==
    IF id \notin DOMAIN t THEN StoreResult("TaskNotFound", t, m)
    ELSE StoreResult("ok",
           Put(t, id, Task(status, ExtendArtifacts(t[id].artifacts, artifacts))),
           Put(m, id, Append(m[id], status.message)))

\* crewai AgentTaskManager._update_store: the body run under self.lock.
crew_update_store(t, m, id, status, artifacts) ==
    IF id \notin DOMAIN t THEN StoreResult("TaskNotFound", t, m)
    ELSE StoreResult("ok",
           Put(t, id, Task(status, ExtendArtifacts(t[id].artifacts, artifacts))),
           IF status.message # NoMessage
           THEN Put(m, id, Append(m[id], status.message)) ELSE m)

\* The update_store the constructed manager's handlers call.
ManagerUpdateStore(t, m, id, status, artifacts) ==
    IF manager = "crewai" THEN crew_update_store(t, m, id, status, artifacts)
    ELSE update_store(t, m, id, status, artifacts)

\* ------------------------------------------------- SSE Event Queue Registry
\* TaskStatusUpdateEvent(id, status, final)
TaskStatusUpdateEvent(state, final) ==
    [kind |-> "status", state |-> state, final |-> final, artifact |-> FALSE]

\* TaskArtifactUpdateEvent(id, artifact)
TaskArtifactUpdateEvent ==
    [kind |-> "artifact", state |-> "none", final |-> FALSE, artifact |-> TRUE]

\* InternalError(message=...) enqueued in place of an event
InternalErrorEvent ==
    [kind |-> "error", state |-> "none", final |-> FALSE, artifact |-> FALSE]

\* enqueue_events_for_sse(task_id, event...): append to every queue registered
\* for the task id.
enqueue_events_for_sse(q, subs, id, evs) ==
    [c \in Calls |-> IF c \in subs[id] THEN q[c] \o evs ELSE q[c]]

\* dequeue_events_for_sse stops after yielding this event.
EndsStream(ev) == ev.kind = "error" \/ (ev.kind = "status" /\ ev.final)

\* ------------------------------------------- Push Notification Authenticator
\* verify_push_notification_url(url): the outcomes the challenge request can
\* have.  Only a receiver that echoes the nonce can verify; any network
\* error, timeout or mismatch gives False.
VerifyOutcomes(url) == IF url = "owned" THEN {TRUE, FALSE} ELSE {FALSE}

\* set_push_notification_info, mutated to register the config whatever the
\* verification said.
set_push_notification_info_unverified(infos, id, url, is_verified) ==
    [ok |-> is_verified, infos |-> Put(infos, id, url)]

\* langgraph AgentTaskManager.set_push_notification_info, given the result
\* of verify_push_notification_url.
set_push_notification_info(infos, id, url, is_verified) ==
    IF ~is_verified THEN [ok |-> FALSE, infos |-> infos]
    ELSE [ok |-> TRUE, infos |-> Put(infos, id, url)]

\* has_push_notification_info(task_id)
has_push_notification_info(id) == id \in DOMAIN push_notification_infos

\* One POST to the webhook: the task state it carries and whether it reached
\* the receiver.
Notification(state, delivered) == [state |-> state, delivered |-> delivered]

\* send_push_notification(url, data): a failed delivery is logged, nothing is
\* raised.
send_push_notification(delivered) == "sent"

\* send_task_notification, mutated to let a failed delivery escape as an
\* exception.
send_task_notification_raising(registered, delivered) ==
    IF ~registered THEN "skipped"
    ELSE IF delivered THEN "sent" ELSE "raise"

\* langgraph AgentTaskManager.send_task_notification: nothing without a
\* registered config, else the awaited send_push_notification.
send_task_notification(registered, delivered) ==
    IF ~registered THEN "skipped" ELSE send_push_notification(delivered)

\* ------------------------------------------------------------ validation
\* utils.are_modalities_compatible(acceptedOutputModes, supported)
are_modalities_compatible(modes, supported) == modes \cap supported # {}

\* _validate_request, mutated to skip the modality check.
validate_request_no_modalities(modes, push) ==
    IF push = "nourl" THEN "PushUrlMissing" ELSE "ok"

\* langgraph AgentTaskManager._validate_request
validate_request(modes, push) ==
    IF ~are_modalities_compatible(modes, SUPPORTED_CONTENT_TYPES)
    THEN "IncompatibleModalities"
    ELSE IF push = "nourl" THEN "PushUrlMissing"
    ELSE "ok"

\* ----------------------------------------------------------------- agent
\* ResponseFormat.status of the LLM's structured response, "unparsed" when
\* there is none.
AgentStatuses == {"completed", "input_required", "error", "unparsed"}

\* CurrencyAgent.get_agent_response
get_agent_response(status) ==
    IF status = "input_required"
    THEN [is_task_complete |-> FALSE, require_user_input |-> TRUE]
    ELSE IF status = "error"
    THEN [is_task_complete |-> FALSE, require_user_input |-> TRUE]
    ELSE IF status = "completed"
    THEN [is_task_complete |-> TRUE, require_user_input |-> FALSE]
    ELSE [is_task_complete |-> FALSE, require_user_input |-> TRUE]

\* The intermediate item CurrencyAgent.stream yields for a tool call or a
\* tool result.
WorkingItem == [is_task_complete |-> FALSE, require_user_input |-> FALSE]

\* ----------------------------------------------------------------- state
NoTask == Task(TaskStatus("none", NoMessage), <<>>)

IdleCall ==
    [op |-> "idle", id |-> 0, pc |-> "idle", part |-> "text", push |-> "absent",
     compat |-> TRUE, agent |-> "none", resp |-> "none", task |-> NoTask,
     ref |-> FALSE]

NoUpdate ==
    [state |-> "none", message |-> NoMessage, artifact |-> FALSE,
     end_stream |-> FALSE]

NoRun ==
    [pc |-> "none", nWorking |-> 0, finalYielded |-> FALSE, fault |-> FALSE,
     cur |-> NoUpdate]

NoRet ==
    [n |-> 0, op |-> "none", id |-> 0, known |-> FALSE, err |-> "none",
     status |-> TaskStatus(SUBMITTED, NoMessage), artifacts |-> <<>>]

Init ==
    /\ manager \in {"langgraph", "crewai"}
    /\ tasks = <<>>
    /\ task_messages = <<>>
    /\ push_notification_infos = <<>>
    /\ task_sse_subscribers = [id \in TaskIds |-> {}]
    /\ lock = 0
    /\ calls = [c \in Calls |-> IdleCall]
    /\ runs = [c \in Calls |-> NoRun]
    /\ sse_queue = [c \in Calls |-> <<>>]
    /\ received = [c \in Calls |-> <<>>]
    /\ notified = [c \in Calls |-> <<>>]
    /\ ret = NoRet

\* Requests are numbered in the order they arrive.
Arrives(c) ==
    /\ calls[c].op = "idle"
    /\ IF c = 1 THEN TRUE ELSE calls[c - 1].op # "idle"

\* The call record of a request just accepted or rejected by validation.
NewCall(op, id, part, push, compat, err, next) ==
    IF err # "ok"
    THEN [IdleCall EXCEPT !.op = op, !.id = id, !.pc = "done", !.compat = compat,
                          !.resp = err]
    ELSE [IdleCall EXCEPT !.op = op, !.id = id, !.pc = next, !.part = part,
                          !.push = push, !.compat = compat]

\* A call ends: by returning `resp` or by raising it.
Finish(c, resp, task) ==
    calls' = [calls EXCEPT ![c].pc = "done", ![c].resp = resp, ![c].task = task]

\* A call ends after agent.invoke came back with `outcome`.
FinishInvoked(c, outcome, resp, task) ==
    calls' = [calls EXCEPT ![c].pc = "done", ![c].agent = outcome,
                           ![c].resp = resp, ![c].task = task]

Goto(c, pc) == calls' = [calls EXCEPT ![c].pc = pc]

\* A call ends by returning the stored Task object itself: `task` is what the
\* object held at that moment.
FinishByReference(c, task) ==
    calls' = [calls EXCEPT ![c].pc = "done", ![c].resp = "task",
                           ![c].task = task, ![c].ref = TRUE]

\* The Task a caller reads through what call c returned: the stored object
\* when the call returned a reference to it, else the value it was given.
ReturnedTask(c) ==
    IF calls[c].ref THEN tasks[calls[c].id] ELSE calls[c].task

\* ------------------------------------------- langgraph: on_send_task (sync)
\* on_send_task, lines 181-189: _validate_request, then the push config (if
\* any) is to be registered.
lg_on_send_task(c) ==
    /\ manager = "langgraph"
    /\ Arrives(c)
    /\ \E id \in TaskIds, modes \in ModeChoices, push \in PushChoices,
          part \in PartKinds :
         calls' = [calls EXCEPT ![c] =
             NewCall("send", id, part, push,
                     are_modalities_compatible(modes, SUPPORTED_CONTENT_TYPES),
                     validate_request(modes, push),
                     IF push = "absent" THEN "upsert" ELSE "push")]
    /\ UNCHANGED <<manager, tasks, task_messages, push_notification_infos,
                   task_sse_subscribers, lock, runs, sse_queue, received,
                   notified, ret>>

\* on_send_task, lines 187-192, mutated to run upsert_task ahead of the push
\* URL's verification.
lg_send_set_push_after_upsert(c) ==
    /\ manager = "langgraph"
    /\ calls[c].op = "send" /\ calls[c].pc = "push"
    /\ \E is_verified \in VerifyOutcomes(calls[c].push) :
         LET r == set_push_notification_info(push_notification_infos,
                      calls[c].id, calls[c].push, is_verified)
             u == upsert_task(tasks, task_messages, calls[c].id, UserMessage(c))
         IN  /\ push_notification_infos' = r.infos
             /\ IF r.ok
                THEN /\ calls' = [calls EXCEPT ![c].pc = "upsert",
                                               ![c].push = "absent"]
                     /\ UNCHANGED <<tasks, task_messages>>
                ELSE /\ Finish(c, "PushUrlInvalid", NoTask)
                     /\ tasks' = u.tasks /\ task_messages' = u.task_messages
    /\ UNCHANGED <<manager, task_sse_subscribers, lock,
                   runs, sse_queue, received, notified, ret>>

\* on_send_task, lines 187-189: set_push_notification_info; a False result
\* rejects the request.
lg_send_set_push(c) ==
    /\ manager = "langgraph"
    /\ calls[c].op = "send" /\ calls[c].pc = "push"
    /\ \E is_verified \in VerifyOutcomes(calls[c].push) :
         LET r == set_push_notification_info(push_notification_infos,
                      calls[c].id, calls[c].push, is_verified)
         IN  /\ push_notification_infos' = r.infos
             /\ IF r.ok
                THEN calls' = [calls EXCEPT ![c].pc = "upsert",
                                            ![c].push = "absent"]
                ELSE Finish(c, "PushUrlInvalid", NoTask)
    /\ UNCHANGED <<manager, tasks, task_messages, task_sse_subscribers, lock,
                   runs, sse_queue, received, notified, ret>>

\* on_send_task, line 192, mutated to run upsert_task a second time.
lg_send_upsert_twice(c) ==
    /\ manager = "langgraph"
    /\ calls[c].op = "send" /\ calls[c].pc = "upsert"
    /\ lock = 0
    /\ LET r == upsert_task(tasks, task_messages, calls[c].id, UserMessage(c))
           q == upsert_task(r.tasks, r.task_messages, calls[c].id, UserMessage(c))
       IN  tasks' = q.tasks /\ task_messages' = q.task_messages
    /\ Goto(c, "working")
    /\ UNCHANGED <<manager, push_notification_infos, task_sse_subscribers, lock,
                   runs, sse_queue, received, notified, ret>>

\* on_send_task, line 192: upsert_task
lg_send_upsert(c) ==
    /\ manager = "langgraph"
    /\ calls[c].op = "send" /\ calls[c].pc = "upsert"
    /\ lock = 0
    /\ LET r == upsert_task(tasks, task_messages, calls[c].id, UserMessage(c))
       IN  tasks' = r.tasks /\ task_messages' = r.task_messages
    /\ Goto(c, "working")
    /\ UNCHANGED <<manager, push_notification_infos, task_sse_subscribers, lock,
                   runs, sse_queue, received, notified, ret>>

\* on_send_task, lines 193-197: update_store(WORKING), then
\* send_task_notification, which posts only when a config is registered.
lg_send_working(c) ==
    /\ manager = "langgraph"
    /\ calls[c].op = "send" /\ calls[c].pc = "working"
    /\ lock = 0
    /\ LET r == update_store(tasks, task_messages, calls[c].id,
                             TaskStatus(WORKING, NoMessage), <<>>)
       IN  /\ tasks' = r.tasks /\ task_messages' = r.task_messages
           /\ IF r.err # "ok" THEN Finish(c, "raise:" \o r.err, NoTask)
              ELSE IF has_push_notification_info(calls[c].id)
              THEN Goto(c, "notify_working")
              ELSE Goto(c, "invoke")
    /\ UNCHANGED <<manager, push_notification_infos, task_sse_subscribers, lock,
                   runs, sse_queue, received, notified, ret>>

\* send_task_notification(task) for the WORKING update: the awaited POST.
lg_send_notify_working(c) ==
    /\ manager = "langgraph"
    /\ calls[c].op = "send" /\ calls[c].pc = "notify_working"
    /\ \E delivered \in BOOLEAN :
         LET r == send_task_notification(
                      has_push_notification_info(calls[c].id), delivered)
         IN  /\ notified' = [notified EXCEPT ![c] =
                    IF r = "skipped" THEN @
                    ELSE Append(@, Notification(WORKING, delivered))]
             /\ IF r = "raise" THEN Finish(c, "raise:push delivery", NoTask)
                ELSE Goto(c, "invoke")
    /\ UNCHANGED <<manager, tasks, task_messages, push_notification_infos,
                   task_sse_subscribers, lock, runs, sse_queue, received, ret>>

\* _process_agent_response, mutated to attach an artifact to whatever the
\* agent answered.
process_agent_response_always_artifact(c, agent_response) ==
    IF agent_response.require_user_input
    THEN [status |-> TaskStatus(INPUT_REQUIRED, AgentMessage(c)),
          artifacts |-> <<Artifact(c)>>]
    ELSE [status |-> TaskStatus(COMPLETED, NoMessage),
          artifacts |-> <<Artifact(c), Artifact(c)>>]

\* _process_agent_response, mutated to cancel the task when the agent asks
\* for user input.
process_agent_response_canceling(c, agent_response) ==
    IF agent_response.require_user_input
    THEN [status |-> TaskStatus(CANCELED, AgentMessage(c)), artifacts |-> <<>>]
    ELSE [status |-> TaskStatus(COMPLETED, NoMessage), artifacts |-> <<Artifact(c)>>]

\* _process_agent_response, lines 295-307: the status and artifacts the
\* agent's response is mapped to.
process_agent_response(c, agent_response) ==
    IF agent_response.require_user_input
    THEN [status |-> TaskStatus(INPUT_REQUIRED, AgentMessage(c)), artifacts |-> <<>>]
    ELSE [status |-> TaskStatus(COMPLETED, NoMessage), artifacts |-> <<Artifact(c)>>]

\* on_send_task, lines 199-211 and _process_agent_response up to its
\* update_store: _get_user_query, agent.invoke (re-raised as ValueError when
\* it fails), update_store with the mapped status.
lg_send_invoke(c) ==
    /\ manager = "langgraph"
    /\ calls[c].op = "send" /\ calls[c].pc = "invoke"
    /\ lock = 0
    /\ \E outcome \in AgentStatuses \cup {"raise"} :
         IF calls[c].part # "text"
         THEN /\ Finish(c, "raise:Only text parts are supported", NoTask)
              /\ UNCHANGED <<tasks, task_messages>>
         ELSE IF outcome = "raise"
         THEN /\ FinishInvoked(c, outcome, "raise:Error invoking agent", NoTask)
              /\ UNCHANGED <<tasks, task_messages>>
         ELSE LET u == process_agent_response(c, get_agent_response(outcome))
                  r == update_store(tasks, task_messages, calls[c].id,
                                    u.status, u.artifacts)
              IN  /\ tasks' = r.tasks /\ task_messages' = r.task_messages
                  /\ IF r.err # "ok"
                     THEN FinishInvoked(c, outcome, "raise:" \o r.err, NoTask)
                     ELSE IF has_push_notification_info(calls[c].id)
                     THEN calls' = [calls EXCEPT ![c].pc = "notify_final",
                                                 ![c].agent = outcome,
                                                 ![c].task = r.tasks[calls[c].id]]
                     ELSE FinishInvoked(c, outcome, "task",
                                        r.tasks[calls[c].id])
    /\ UNCHANGED <<manager, push_notification_infos, task_sse_subscribers, lock,
                   runs, sse_queue, received, notified, ret>>

\* _process_agent_response, lines 316-323: the final notification, then the
\* SendTaskResponse with the task.
lg_send_notify_final(c) ==
    /\ manager = "langgraph"
    /\ calls[c].op = "send" /\ calls[c].pc = "notify_final"
    /\ \E delivered \in BOOLEAN :
         LET r == send_task_notification(
                      has_push_notification_info(calls[c].id), delivered)
         IN  /\ notified' = [notified EXCEPT ![c] =
                    IF r = "skipped" THEN @
                    ELSE Append(@, Notification(calls[c].task.status.state,
                                                delivered))]
             /\ IF r = "raise" THEN Finish(c, "raise:push delivery", NoTask)
                ELSE Finish(c, "task", calls[c].task)
    /\ UNCHANGED <<manager, tasks, task_messages, push_notification_infos,
                   task_sse_subscribers, lock, runs, sse_queue, received, ret>>

\* ------------------------------- langgraph: on_send_task_subscribe (stream)
\* on_send_task_subscribe, lines 235-237: _validate_request
lg_on_send_task_subscribe(c) ==
    /\ manager = "langgraph"
    /\ Arrives(c)
    /\ \E id \in TaskIds, modes \in ModeChoices, push \in PushChoices,
          part \in PartKinds :
         calls' = [calls EXCEPT ![c] =
             NewCall("subscribe", id, part, push,
                     are_modalities_compatible(modes, SUPPORTED_CONTENT_TYPES),
                     validate_request(modes, push), "upsert")]
    /\ UNCHANGED <<manager, tasks, task_messages, push_notification_infos,
                   task_sse_subscribers, lock, runs, sse_queue, received,
                   notified, ret>>

\* on_send_task_subscribe, line 240: upsert_task
lg_sub_upsert(c) ==
    /\ manager = "langgraph"
    /\ calls[c].op = "subscribe" /\ calls[c].pc = "upsert"
    /\ lock = 0
    /\ LET r == upsert_task(tasks, task_messages, calls[c].id, UserMessage(c))
       IN  tasks' = r.tasks /\ task_messages' = r.task_messages
    /\ Goto(c, IF calls[c].push = "absent" THEN "setup" ELSE "push")
    /\ UNCHANGED <<manager, push_notification_infos, task_sse_subscribers, lock,
                   runs, sse_queue, received, notified, ret>>

\* on_send_task_subscribe, lines 243-249, mutated to create the SSE queue
\* ahead of the push URL's verification.
lg_sub_set_push_registering(c) ==
    /\ manager = "langgraph"
    /\ calls[c].op = "subscribe" /\ calls[c].pc = "push"
    /\ \E is_verified \in VerifyOutcomes(calls[c].push) :
         LET r == set_push_notification_info(push_notification_infos,
                      calls[c].id, calls[c].push, is_verified)
         IN  /\ push_notification_infos' = r.infos
             /\ IF r.ok
                THEN /\ calls' = [calls EXCEPT ![c].pc = "setup",
                                               ![c].push = "absent"]
                     /\ UNCHANGED task_sse_subscribers
                ELSE /\ Finish(c, "PushUrlInvalid", NoTask)
                     /\ task_sse_subscribers' =
                          [task_sse_subscribers EXCEPT ![calls[c].id] = @ \cup {c}]
    /\ UNCHANGED <<manager, tasks, task_messages, lock,
                   runs, sse_queue, received, notified, ret>>

\* on_send_task_subscribe, lines 243-245: set_push_notification_info
lg_sub_set_push(c) ==
    /\ manager = "langgraph"
    /\ calls[c].op = "subscribe" /\ calls[c].pc = "push"
    /\ \E is_verified \in VerifyOutcomes(calls[c].push) :
         LET r == set_push_notification_info(push_notification_infos,
                      calls[c].id, calls[c].push, is_verified)
         IN  /\ push_notification_infos' = r.infos
             /\ IF r.ok
                THEN calls' = [calls EXCEPT ![c].pc = "setup",
                                            ![c].push = "absent"]
                ELSE Finish(c, "PushUrlInvalid", NoTask)
    /\ UNCHANGED <<manager, tasks, task_messages, task_sse_subscribers, lock,
                   runs, sse_queue, received, notified, ret>>

\* setup_sse_consumer(task_id, is_resubscribe): a first subscription is
\* refused while the task has a live queue.
setup_sse_consumer(subs, id, c, is_resubscribe) ==
    IF ~is_resubscribe /\ subs[id] # {}
    THEN [err |-> "AlreadySubscribed", subs |-> subs]
    ELSE [err |-> "ok", subs |-> [subs EXCEPT ![id] = @ \cup {c}]]

\* on_send_task_subscribe, lines 247-267: register the queue, launch
\* _run_streaming_agent with asyncio.create_task, return the event sequence;
\* whatever is raised on the way is returned as an InternalError response.
lg_sub_setup(c) ==
    /\ manager = "langgraph"
    /\ calls[c].op = "subscribe" /\ calls[c].pc = "setup"
    /\ LET r == setup_sse_consumer(task_sse_subscribers, calls[c].id, c, FALSE)
       IN  /\ task_sse_subscribers' = r.subs
           /\ IF r.err # "ok"
              THEN Finish(c, "InternalError", NoTask) /\ UNCHANGED runs
              ELSE /\ Finish(c, "stream", NoTask)
                   /\ runs' = [runs EXCEPT ![c].pc = "query"]
    /\ UNCHANGED <<manager, tasks, task_messages, push_notification_infos, lock,
                   sse_queue, received, notified, ret>>

\* _run_streaming_agent, lines 64-65: _get_user_query, ahead of the try
\* block: its ValueError ends the asyncio task with nothing enqueued.
run_get_user_query(c) ==
    /\ runs[c].pc = "query"
    /\ runs' = [runs EXCEPT ![c].pc =
                   IF calls[c].part = "text" THEN "stream" ELSE "crashed"]
    /\ UNCHANGED <<manager, tasks, task_messages, push_notification_infos,
                   task_sse_subscribers, lock, calls, sse_queue, received,
                   notified, ret>>

\* CurrencyAgent.stream, mutated to go on yielding after its final response.
StreamNextUnending(finalYielded, nWorking) ==
    (IF nWorking <= MaxSteps THEN {"working"} ELSE {"stop"})
    \cup (IF finalYielded THEN {} ELSE AgentStatuses \cup {"raise"})

\* CurrencyAgent.stream: what the generator can do when asked for its next
\* item: an intermediate item per tool call / tool result, then the final
\* get_agent_response, then exhaustion; graph.stream or get_state may raise.
StreamNext(finalYielded, nWorking) ==
    IF finalYielded THEN {"stop"}
    ELSE (IF nWorking < MaxSteps THEN {"working"} ELSE {})
         \cup AgentStatuses \cup {"raise"}

\* The item of the stream for an outcome.
StreamItem(outcome) ==
    IF outcome = "working" THEN WorkingItem ELSE get_agent_response(outcome)

\* _run_streaming_agent, lines 70-91, mutated to leave end_stream False when
\* the agent asks for user input.
stream_update_unending(c, item) ==
    IF ~item.is_task_complete /\ ~item.require_user_input
    THEN [state |-> WORKING, message |-> AgentMessage(c),
          artifact |-> FALSE, end_stream |-> FALSE]
    ELSE IF item.require_user_input
    THEN [state |-> INPUT_REQUIRED, message |-> AgentMessage(c),
          artifact |-> FALSE, end_stream |-> FALSE]
    ELSE [state |-> COMPLETED, message |-> NoMessage,
          artifact |-> TRUE, end_stream |-> TRUE]

\* _run_streaming_agent, lines 70-91: task state, message, artifact and
\* end_stream for one item of the stream.
stream_update(c, item) ==
    IF ~item.is_task_complete /\ ~item.require_user_input
    THEN [state |-> WORKING, message |-> AgentMessage(c),
          artifact |-> FALSE, end_stream |-> FALSE]
    ELSE IF item.require_user_input
    THEN [state |-> INPUT_REQUIRED, message |-> AgentMessage(c),
          artifact |-> FALSE, end_stream |-> TRUE]
    ELSE [state |-> COMPLETED, message |-> NoMessage,
          artifact |-> TRUE, end_stream |-> TRUE]

\* The events one item puts on the queues, lines 104-119, mutated to attach
\* the artifact to no event of its own.
item_events_status_only(u) == <<TaskStatusUpdateEvent(u.state, u.end_stream)>>

\* The events one item puts on the queues, lines 104-119, mutated to enqueue
\* the status event ahead of the artifact event.
item_events_status_first(u) ==
    <<TaskStatusUpdateEvent(u.state, u.end_stream)>>
    \o (IF u.artifact THEN <<TaskArtifactUpdateEvent>> ELSE <<>>)

\* The events one item puts on the queues, lines 104-119: the artifact event
\* (if an artifact was produced), then the status event.
item_events(u) ==
    (IF u.artifact THEN <<TaskArtifactUpdateEvent>> ELSE <<>>)
    \o <<TaskStatusUpdateEvent(u.state, u.end_stream)>>

\* The except clause, lines 121-127: the fault becomes an InternalError event.
RunFault(c) ==
    /\ sse_queue' = enqueue_events_for_sse(sse_queue, task_sse_subscribers,
                                           calls[c].id, <<InternalErrorEvent>>)
    /\ runs' = [runs EXCEPT ![c].pc = "done", ![c].fault = TRUE]

\* _run_streaming_agent, lines 69-99: the next item of agent.stream and the
\* update_store for it.
run_next_item(c) ==
    /\ runs[c].pc = "stream"
    /\ lock = 0
    /\ \E outcome \in StreamNext(runs[c].finalYielded, runs[c].nWorking) :
         IF outcome = "stop"
         THEN /\ runs' = [runs EXCEPT ![c].pc = "done"]
              /\ UNCHANGED <<tasks, task_messages, sse_queue>>
         ELSE IF outcome = "raise"
         THEN RunFault(c) /\ UNCHANGED <<tasks, task_messages>>
         ELSE LET u == stream_update(c, StreamItem(outcome))
                  r == update_store(tasks, task_messages, calls[c].id,
                           TaskStatus(u.state, u.message),
                           IF u.artifact THEN <<Artifact(c)>> ELSE <<>>)
              IN  /\ tasks' = r.tasks /\ task_messages' = r.task_messages
                  /\ IF r.err # "ok" THEN RunFault(c)
                     ELSE /\ runs' = [runs EXCEPT
                                ![c].pc = IF has_push_notification_info(calls[c].id)
                                          THEN "notify" ELSE "emit",
                                ![c].cur = u,
                                ![c].finalYielded = (outcome # "working"),
                                ![c].nWorking = @ + (IF outcome = "working"
                                                     THEN 1 ELSE 0)]
                          /\ UNCHANGED sse_queue
    /\ UNCHANGED <<manager, push_notification_infos, task_sse_subscribers, lock,
                   calls, received, notified, ret>>

\* _run_streaming_agent, line 101: send_task_notification(latest_task)
run_notify(c) ==
    /\ runs[c].pc = "notify"
    /\ \E delivered \in BOOLEAN :
         LET r == send_task_notification(
                      has_push_notification_info(calls[c].id), delivered)
         IN  /\ notified' = [notified EXCEPT ![c] =
                    IF r = "skipped" THEN @
                    ELSE Append(@, Notification(runs[c].cur.state, delivered))]
             /\ IF r = "raise" THEN RunFault(c)
                ELSE /\ runs' = [runs EXCEPT ![c].pc = "emit"]
                     /\ UNCHANGED sse_queue
    /\ UNCHANGED <<manager, tasks, task_messages, push_notification_infos,
                   task_sse_subscribers, lock, calls, received, ret>>

\* _run_streaming_agent, lines 104-119: the first `await
\* enqueue_events_for_sse` of the item: its artifact event when it produced an
\* artifact (a second enqueue, of the status event, follows), else its status
\* event (and the loop goes on).
run_emit(c) ==
    /\ runs[c].pc = "emit"
    /\ sse_queue' = enqueue_events_for_sse(sse_queue, task_sse_subscribers,
                        calls[c].id, <<Head(item_events(runs[c].cur))>>)
    /\ runs' = [runs EXCEPT ![c].pc = IF Len(item_events(runs[c].cur)) > 1
                                      THEN "emit_status" ELSE "stream"]
    /\ UNCHANGED <<manager, tasks, task_messages, push_notification_infos,
                   task_sse_subscribers, lock, calls, received, notified, ret>>

\* _run_streaming_agent, lines 113-119, mutated to enqueue the item's status
\* event to no queue.
run_emit_status_dropped(c) ==
    /\ runs[c].pc = "emit_status"
    /\ runs' = [runs EXCEPT ![c].pc = "stream"]
    /\ UNCHANGED <<manager, tasks, task_messages, push_notification_infos,
                   task_sse_subscribers, lock, calls, sse_queue, received,
                   notified, ret>>

\* _run_streaming_agent, lines 113-119: the `await enqueue_events_for_sse` of
\* the status event of an item whose artifact event is already enqueued, then
\* the loop goes on.
run_emit_status(c) ==
    /\ runs[c].pc = "emit_status"
    /\ sse_queue' = enqueue_events_for_sse(sse_queue, task_sse_subscribers,
                        calls[c].id, Tail(item_events(runs[c].cur)))
    /\ runs' = [runs EXCEPT ![c].pc = "stream"]
    /\ UNCHANGED <<manager, tasks, task_messages, push_notification_infos,
                   task_sse_subscribers, lock, calls, received, notified, ret>>

\* dequeue_events_for_sse: the consumer takes the next event; after a final
\* status event or an error its stream ends and its queue is dropped.
dequeue_events_for_sse(c) ==
    /\ calls[c].id \in TaskIds
    /\ c \in task_sse_subscribers[calls[c].id]
    /\ sse_queue[c] # <<>>
    /\ received' = [received EXCEPT ![c] = Append(@, Head(sse_queue[c]))]
    /\ sse_queue' = [sse_queue EXCEPT ![c] = Tail(@)]
    /\ task_sse_subscribers' =
         IF EndsStream(Head(sse_queue[c]))
         THEN [task_sse_subscribers EXCEPT ![calls[c].id] = @ \ {c}]
         ELSE task_sse_subscribers
    /\ UNCHANGED <<manager, tasks, task_messages, push_notification_infos, lock,
                   calls, runs, notified, ret>>

\* on_resubscribe_to_task, mutated to hand the new consumer the events the
\* task's stream already carried.
on_resubscribe_to_task_replaying(c) ==
    /\ manager = "langgraph"
    /\ Arrives(c)
    /\ \E id \in TaskIds :
         LET r == setup_sse_consumer(task_sse_subscribers, id, c, TRUE)
         IN  /\ task_sse_subscribers' = r.subs
             /\ sse_queue' = [sse_queue EXCEPT ![c] =
                    IF task_sse_subscribers[id] = {} THEN <<>>
                    ELSE LET o == CHOOSE x \in task_sse_subscribers[id] : TRUE
                         IN  received[o] \o sse_queue[o]]
             /\ calls' = [calls EXCEPT ![c] =
                    [IdleCall EXCEPT !.op = "resubscribe", !.id = id,
                                     !.pc = "done", !.resp = "stream"]]
    /\ UNCHANGED <<manager, tasks, task_messages, push_notification_infos, lock,
                   runs, received, notified, ret>>

\* on_resubscribe_to_task: setup_sse_consumer(id, True) registers a fresh
\* queue for the task, dequeue_events_for_sse over it is returned; whatever is
\* raised is returned as an InternalError response.
on_resubscribe_to_task(c) ==
    /\ manager = "langgraph"
    /\ Arrives(c)
    /\ \E id \in TaskIds :
         LET r == setup_sse_consumer(task_sse_subscribers, id, c, TRUE)
         IN  /\ task_sse_subscribers' = r.subs
             /\ calls' = [calls EXCEPT ![c] =
                    [IdleCall EXCEPT !.op = "resubscribe", !.id = id,
                                     !.pc = "done",
                                     !.resp = IF r.err = "ok" THEN "stream"
                                              ELSE "InternalError"]]
    /\ UNCHANGED <<manager, tasks, task_messages, push_notification_infos, lock,
                   runs, sse_queue, received, notified, ret>>

\* ------------------------------------------------- crewai: on_send_task
\* on_send_task, lines 63-72: the modality check
crew_on_send_task(c) ==
    /\ manager = "crewai"
    /\ Arrives(c)
    /\ \E id \in TaskIds, modes \in ModeChoices, part \in PartKinds :
         LET compat == are_modalities_compatible(modes, SUPPORTED_CONTENT_TYPES)
         IN  calls' = [calls EXCEPT ![c] =
                 NewCall("send", id, part, "absent", compat,
                         IF compat THEN "ok" ELSE "IncompatibleModalities",
                         "upsert")]
    /\ UNCHANGED <<manager, tasks, task_messages, push_notification_infos,
                   task_sse_subscribers, lock, runs, sse_queue, received,
                   notified, ret>>

\* on_send_task, lines 75-76: upsert_task
crew_send_upsert(c) ==
    /\ manager = "crewai"
    /\ calls[c].op = "send" /\ calls[c].pc = "upsert"
    /\ lock = 0
    /\ LET r == upsert_task(tasks, task_messages, calls[c].id, UserMessage(c))
       IN  tasks' = r.tasks /\ task_messages' = r.task_messages
    /\ Goto(c, "invoke")
    /\ UNCHANGED <<manager, push_notification_infos, task_sse_subscribers, lock,
                   runs, sse_queue, received, notified, ret>>

\* _invoke, lines 154-181: _get_user_query, agent.invoke (re-raised as
\* ValueError when it fails), get_image_data (the image or an error text:
\* either becomes the artifact's part).
crew_invoke(c) ==
    /\ manager = "crewai"
    /\ calls[c].op = "send" /\ calls[c].pc = "invoke"
    /\ \E outcome \in {"image", "no_image", "raise"} :
         IF calls[c].part # "text"
         THEN Finish(c, "raise:Only text parts are supported", NoTask)
         ELSE IF outcome = "raise"
         THEN FinishInvoked(c, outcome, "raise:Error invoking agent", NoTask)
         ELSE calls' = [calls EXCEPT ![c].pc = "lock", ![c].agent = outcome]
    /\ UNCHANGED <<manager, tasks, task_messages, push_notification_infos,
                   task_sse_subscribers, lock, runs, sse_queue, received,
                   notified, ret>>

\* _update_store, line 118: async with self.lock
crew_update_store_acquire(c) ==
    /\ manager = "crewai"
    /\ calls[c].op = "send" /\ calls[c].pc = "lock"
    /\ lock = 0
    /\ lock' = c
    /\ Goto(c, "store")
    /\ UNCHANGED <<manager, tasks, task_messages, push_notification_infos,
                   task_sse_subscribers, runs, sse_queue, received, notified,
                   ret>>

\* _invoke, lines 183-188, with the body of _update_store, lines 119-138:
\* COMPLETED with one artifact, the lock released, `return task` (the object
\* in self.tasks) placed in the SendTaskResponse.
crew_update_store_body(c) ==
    /\ manager = "crewai"
    /\ calls[c].op = "send" /\ calls[c].pc = "store"
    /\ lock = c
    /\ LET r == crew_update_store(tasks, task_messages, calls[c].id,
                    TaskStatus(COMPLETED, NoMessage), <<Artifact(c)>>)
       IN  /\ tasks' = r.tasks /\ task_messages' = r.task_messages
           /\ IF r.err # "ok" THEN Finish(c, "raise:" \o r.err, NoTask)
              ELSE FinishByReference(c, r.tasks[calls[c].id])
    /\ lock' = 0
    /\ UNCHANGED <<manager, push_notification_infos, task_sse_subscribers, runs,
                   sse_queue, received, notified, ret>>

\* ---------------------------------------- crewai: on_send_task_subscribe
\* on_send_task_subscribe, lines 95-97: _validate_request
crew_on_send_task_subscribe(c) ==
    /\ manager = "crewai"
    /\ Arrives(c)
    /\ \E id \in TaskIds, modes \in ModeChoices, push \in PushChoices :
         calls' = [calls EXCEPT ![c] =
             NewCall("subscribe", id, "text", "absent",
                     are_modalities_compatible(modes, SUPPORTED_CONTENT_TYPES),
                     validate_request(modes, push), "upsert")]
    /\ UNCHANGED <<manager, tasks, task_messages, push_notification_infos,
                   task_sse_subscribers, lock, runs, sse_queue, received,
                   notified, ret>>

\* on_send_task_subscribe, line 99: upsert_task, then the method ends and
\* returns None.
crew_sub_upsert(c) ==
    /\ manager = "crewai"
    /\ calls[c].op = "subscribe" /\ calls[c].pc = "upsert"
    /\ lock = 0
    /\ LET r == upsert_task(tasks, task_messages, calls[c].id, UserMessage(c))
       IN  tasks' = r.tasks /\ task_messages' = r.task_messages
    /\ Finish(c, "None", NoTask)
    /\ UNCHANGED <<manager, push_notification_infos, task_sse_subscribers, lock,
                   runs, sse_queue, received, notified, ret>>

\* ------------------------------------------------------------- behaviours
Next ==
    \E c \in Calls :
        \/ lg_on_send_task(c)
        \/ lg_send_set_push(c)
        \/ lg_send_upsert(c)
        \/ lg_send_working(c)
        \/ lg_send_notify_working(c)
        \/ lg_send_invoke(c)
        \/ lg_send_notify_final(c)
        \/ lg_on_send_task_subscribe(c)
        \/ lg_sub_upsert(c)
        \/ lg_sub_set_push(c)
        \/ lg_sub_setup(c)
        \/ run_get_user_query(c)
        \/ run_next_item(c)
        \/ run_notify(c)
        \/ run_emit(c)
        \/ run_emit_status(c)
        \/ dequeue_events_for_sse(c)
        \/ on_resubscribe_to_task(c)
        \/ crew_on_send_task(c)
        \/ crew_send_upsert(c)
        \/ crew_invoke(c)
        \/ crew_update_store_acquire(c)
        \/ crew_update_store_body(c)
        \/ crew_on_send_task_subscribe(c)
        \/ crew_sub_upsert(c)

Spec == Init /\ [][Next]_vars

\* The crewai server alone.
NextCrew ==
    \E c \in Calls :
        \/ crew_on_send_task(c)
        \/ crew_send_upsert(c)
        \/ crew_invoke(c)
        \/ crew_update_store_acquire(c)
        \/ crew_update_store_body(c)
        \/ crew_on_send_task_subscribe(c)
        \/ crew_sub_upsert(c)

InitCrew == Init /\ manager = "crewai"

SpecCrew == InitCrew /\ [][NextCrew]_vars

\* ------------------------------------------------- the Task Store on its own
\* The Task Store's two operations called directly, with any arguments.
StoreStatuses ==
    {TaskStatus(st, msg) : st \in TaskStates, msg \in {NoMessage, AgentMessage(0)}}

\* upsert_task(params) called directly.
store_upsert_task ==
    /\ ret.n < MaxOps
    /\ lock = 0
    /\ \E id \in TaskIds :
         LET r == upsert_task(tasks, task_messages, id, UserMessage(0))
         IN  /\ tasks' = r.tasks /\ task_messages' = r.task_messages
             /\ ret' = [NoRet EXCEPT !.n = ret.n + 1, !.op = "upsert_task",
                                     !.id = id, !.known = id \in DOMAIN tasks,
                                     !.err = r.err]
    /\ UNCHANGED <<manager, push_notification_infos, task_sse_subscribers, lock,
                   calls, runs, sse_queue, received, notified>>

\* update_store / _update_store called directly.
store_update_store ==
    /\ ret.n < MaxOps
    /\ lock = 0
    /\ \E id \in TaskIds, status \in StoreStatuses,
          artifacts \in {<<>>, <<Artifact(ret.n + 1)>>,
                         <<Artifact(ret.n + 1), Artifact(0)>>} :
         LET r == ManagerUpdateStore(tasks, task_messages, id, status, artifacts)
         IN  /\ tasks' = r.tasks /\ task_messages' = r.task_messages
             /\ ret' = [n |-> ret.n + 1, op |-> "update_store", id |-> id,
                        known |-> id \in DOMAIN tasks, err |-> r.err,
                        status |-> status, artifacts |-> artifacts]
    /\ UNCHANGED <<manager, push_notification_infos, task_sse_subscribers, lock,
                   calls, runs, sse_queue, received, notified>>

StoreNext == store_upsert_task \/ store_update_store

StoreSpec == Init /\ [][StoreNext]_vars

\* ------------------------------------- the langgraph server's streaming side
\* on_send_task_subscribe, its streaming runs, the consumers of the event
\* sequences and on_resubscribe_to_task, with no synchronous request; every
\* request addresses the same task (runs on different tasks share no state).
NextStream ==
    \E c \in Calls :
        \/ lg_on_send_task_subscribe(c) /\ calls'[c].id = 1
        \/ lg_sub_upsert(c)
        \/ lg_sub_set_push(c)
        \/ lg_sub_setup(c)
        \/ run_get_user_query(c)
        \/ run_next_item(c)
        \/ run_notify(c)
        \/ run_emit(c)
        \/ run_emit_status(c)
        \/ dequeue_events_for_sse(c)
        \/ on_resubscribe_to_task(c) /\ calls'[c].id = 1

InitStream == Init /\ manager = "langgraph"

\* The event loop runs every asyncio task that is ready (the streaming run
\* created at line 252 takes its next step whenever it can) and every consumer
\* goes on reading its event sequence while it has an event waiting.
FairStream ==
    /\ InitStream
    /\ [][NextStream]_vars
    /\ \A c \in Calls :
          /\ WF_vars(\/ run_get_user_query(c) \/ run_next_item(c)
                     \/ run_notify(c) \/ run_emit(c) \/ run_emit_status(c))
          /\ WF_vars(dequeue_events_for_sse(c))

\* ================================================================ claims
\* The events of the stream opened by call c, in enqueue order: those its
\* consumer has read, then those still on its queue.
Stream(c) == received[c] \o sse_queue[c]

\* C1 (as claimed): once a task is COMPLETED, ERROR or CANCELED, no step
\* changes its status or its artifacts: every later update_store for it
\* fails and leaves it alone.
C1_TerminalFrozen ==
    [][\A id \in DOMAIN tasks :
          tasks[id].status.state \in TerminalStates => tasks'[id] = tasks[id]]_vars

\* The edges of the task state machine.
Edges ==
    {<<SUBMITTED, WORKING>>, <<WORKING, WORKING>>, <<WORKING, COMPLETED>>,
     <<WORKING, INPUT_REQUIRED>>, <<WORKING, ERROR>>, <<WORKING, CANCELED>>,
     <<INPUT_REQUIRED, WORKING>>}

\* C2 (as claimed): every change of a task's status.state follows an edge of
\* the state machine, in both managers.
C2_StateMachine ==
    [][\A id \in DOMAIN tasks :
          tasks'[id].status.state # tasks[id].status.state
            => <<tasks[id].status.state, tasks'[id].status.state>> \in Edges]_vars

\* The calls whose _update_store on task id has returned.
Stored(id) == {c \in Calls : calls[c].id = id /\ calls[c].resp = "task"}

\* C3: _update_store calls on one task id never interleave: at most one call
\* is inside the locked body, and once N calls that each append one artifact
\* have returned, the task holds exactly those N artifacts, each once, and
\* the status one of them wrote.
C3_UpdatesSerialized ==
    /\ Cardinality({c \in Calls : calls[c].pc = "store"}) <= 1
    /\ \A c \in Calls : calls[c].pc = "store" <=> lock = c
    /\ \A id \in DOMAIN tasks :
         /\ Len(tasks[id].artifacts) = Cardinality(Stored(id))
         /\ {tasks[id].artifacts[i] : i \in DOMAIN tasks[id].artifacts}
              = {Artifact(c) : c \in Stored(id)}
         /\ Stored(id) # {} => tasks[id].status = TaskStatus(COMPLETED, NoMessage)

\* C3 witness: two calls on one task were in flight together and both have
\* returned: the later request stored its artifact first.
C3_Witness ==
    \E id \in DOMAIN tasks :
        /\ tasks[id].artifacts = <<Artifact(2), Artifact(1)>>
        /\ Stored(id) = {1, 2}

\* The positions of the final=true status events in a stream.
Finals(s) == {i \in DOMAIN s : s[i].kind = "status" /\ s[i].final}

\* The streaming run of call c has stored COMPLETED and enqueued its events.
RunCompleted(c) ==
    /\ runs[c].cur.state = COMPLETED
    /\ runs[c].pc \in {"stream", "done"}

\* C4: a streaming run that reaches COMPLETED enqueues exactly one final=true
\* event, and nothing is enqueued after that event.
C4_OneFinalEvent ==
    \A c \in Calls :
        runs[c].cur.state = COMPLETED =>
            /\ \A i \in Finals(Stream(c)) : i = Len(Stream(c))
            /\ RunCompleted(c) => Cardinality(Finals(Stream(c))) = 1

\* C4 witness: a run yielded intermediate items, completed and ended, and its
\* consumer has read the whole stream.
C4_Witness ==
    \E c \in Calls :
        /\ RunCompleted(c) /\ runs[c].pc = "done"
        /\ runs[c].nWorking = MaxSteps
        /\ sse_queue[c] = <<>>
        /\ Cardinality(Finals(received[c])) = 1

\* The run of call c took two intermediate items and then a completed one,
\* every update_store succeeded, and the consumer has read to the end.
TwoWorkingThenCompleted(c) ==
    /\ runs[c].pc = "done" /\ ~runs[c].fault
    /\ runs[c].nWorking = 2
    /\ runs[c].cur.state = COMPLETED
    /\ c \notin task_sse_subscribers[calls[c].id]

\* C5 (as claimed): two intermediate WORKING items and a final completed one
\* give the consumer exactly three events, the first two final=false, the
\* last final=true and carrying the artifact.
C5_ThreeEvents ==
    \A c \in Calls :
        TwoWorkingThenCompleted(c) =>
            /\ Len(received[c]) = 3
            /\ ~received[c][1].final /\ ~received[c][2].final
            /\ received[c][3].final /\ received[c][3].artifact

\* C5 (amended): the consumer sees four events: two WORKING status events
\* with final=false, the artifact event, then the COMPLETED status event with
\* final=true, which carries no artifact.
C5_FourEvents ==
    \A c \in Calls :
        TwoWorkingThenCompleted(c) =>
            received[c] = <<TaskStatusUpdateEvent(WORKING, FALSE),
                            TaskStatusUpdateEvent(WORKING, FALSE),
                            TaskArtifactUpdateEvent,
                            TaskStatusUpdateEvent(COMPLETED, TRUE)>>

\* C5 witness: such a run has happened.
C5_Witness == \E c \in Calls : TwoWorkingThenCompleted(c)

\* C6 (as claimed): a streaming unit of work that a fault ended has put an
\* InternalError event on its subscriber's stream.
C6_FaultDelivered ==
    \A c \in Calls :
        (runs[c].fault \/ runs[c].pc = "crashed")
            => \E i \in DOMAIN Stream(c) : Stream(c)[i].kind = "error"

\* C7 (as claimed): when agent.invoke fails in on_send_task, the call returns
\* a task in state ERROR, raises nothing, and the stored task is not left in
\* WORKING.
C7_InvokeFailureIsError ==
    \A c \in Calls :
        (calls[c].op = "send" /\ calls[c].pc = "done" /\ calls[c].agent = "raise")
            => /\ calls[c].resp = "task"
               /\ calls[c].task.status.state = ERROR
               /\ tasks[calls[c].id].status.state # WORKING

C9_UnknownIdNotFound ==
    [][(ret'.n # ret.n /\ ret'.op = "update_store" /\ ret'.id \notin DOMAIN tasks)
          => (ret'.err = "TaskNotFound" /\ UNCHANGED <<tasks, task_messages>>)]_vars

\* C9 witness: update_store was called for an unknown id while the store held
\* another task.
C9_Witness ==
    /\ ret.op = "update_store" /\ ~ret.known /\ ret.err = "TaskNotFound"
    /\ tasks # <<>>

\* C10: a push-notification config is stored only by a
\* set_push_notification_info whose URL verification returned true, and a
\* verification that returns false rejects the request and stores nothing.
C10_VerifiedBeforeStored ==
    [][/\ \A id \in DOMAIN push_notification_infos' :
            push_notification_infos'[id] \in {u \in Urls : TRUE \in VerifyOutcomes(u)}
       /\ \A c \in Calls :
            (calls[c].pc = "push" /\ calls'[c].pc = "done")
               => (calls'[c].resp = "PushUrlInvalid"
                   /\ UNCHANGED push_notification_infos)
       /\ push_notification_infos' # push_notification_infos
            => \E c \in Calls :
                 /\ calls[c].pc = "push" /\ calls'[c].pc # "done"
                 /\ push_notification_infos' =
                      Put(push_notification_infos, calls[c].id, calls[c].push)]_vars

\* C10 witness: one request's URL was verified and stored, another's failed
\* verification and was rejected.
C10_Witness ==
    /\ push_notification_infos # <<>>
    /\ \E c \in Calls : calls[c].resp = "PushUrlInvalid"

\* The steps of the streaming unit of work launched by call c.
RunStep(c) ==
    \/ run_get_user_query(c) \/ run_next_item(c) \/ run_notify(c)
    \/ run_emit(c) \/ run_emit_status(c)

\* The steps of the synchronous on_send_task of call c (langgraph).
SendStep(c) ==
    \/ lg_send_set_push(c) \/ lg_send_upsert(c) \/ lg_send_working(c)
    \/ lg_send_notify_working(c) \/ lg_send_invoke(c) \/ lg_send_notify_final(c)

\* C11 (as claimed): push delivery is a unit of work of its own: while the
\* POST for an update is in flight, the streaming run that made the update can
\* go on to enqueue the update's status event, and the synchronous handler can
\* go on to return its response, by a step that is not the POST finishing.
C11_PushDoesNotHoldCaller ==
    \A c \in Calls :
        /\ runs[c].pc = "notify" => ENABLED (RunStep(c) /\ notified' = notified)
        /\ calls[c].pc = "notify_final"
             => ENABLED (SendStep(c) /\ notified' = notified)

\* C12: the step in which a push delivery ends, delivered or failed, changes
\* nothing but the record of POSTs: the stored tasks, histories, subscriber
\* queues and delivered events stay as they are, the streaming run goes on to
\* enqueue the update's events, and the synchronous handler goes on to invoke
\* the agent (WORKING update) or to return the task it stored (final update).
C12_DeliveryFailureHarmless ==
    [][\A c \in Calls :
          /\ (runs[c].pc = "notify" /\ runs'[c] # runs[c])
               => /\ runs' = [runs EXCEPT ![c].pc = "emit"]
                  /\ UNCHANGED <<tasks, task_messages, task_sse_subscribers,
                                 sse_queue, received, calls>>
          /\ (calls[c].pc = "notify_working" /\ calls'[c] # calls[c])
               => /\ calls' = [calls EXCEPT ![c].pc = "invoke"]
                  /\ UNCHANGED <<tasks, task_messages, task_sse_subscribers,
                                 sse_queue, received, runs>>
          /\ (calls[c].pc = "notify_final" /\ calls'[c] # calls[c])
               => /\ calls' = [calls EXCEPT ![c].pc = "done", ![c].resp = "task"]
                  /\ UNCHANGED <<tasks, task_messages, task_sse_subscribers,
                                 sse_queue, received, runs>>]_vars

\* A POST of call c failed.
DeliveryFailed(c) ==
    \E i \in DOMAIN notified[c] : ~notified[c][i].delivered

\* C12 witness: a synchronous request whose two deliveries both failed has
\* returned its COMPLETED task, and a streaming run with a failed delivery has
\* completed and its consumer has read the final event.
C12_Witness ==
    \E c, d \in Calls :
        /\ calls[c].op = "send" /\ calls[c].resp = "task"
        /\ calls[c].task.status.state = COMPLETED
        /\ Len(notified[c]) = 2
        /\ ~notified[c][1].delivered /\ ~notified[c][2].delivered
        /\ calls[d].op = "subscribe" /\ DeliveryFailed(d)
        /\ runs[d].pc = "done" /\ ~runs[d].fault
        /\ Cardinality(Finals(received[d])) = 1

\* C13 (as claimed): the Task a call was returned by update_store is a
\* snapshot: what a caller reads through it stays what it was when the call
\* returned, whatever later update_store calls do to the same task id.
C13_ReturnedTaskIsSnapshot ==
    \A c \in Calls : calls[c].resp = "task" => ReturnedTask(c) = calls[c].task

\* The messages of role "user" in a history.
UserMessages(h) == SelectSeq(h, LAMBDA x : x.role = "user")

\* The history kept for a task id, empty when there is none.
History(m, id) == IF id \in DOMAIN m THEN m[id] ELSE <<>>

\* Call c leaves its upsert_task in this step.
Upserts(c) == calls[c].pc = "upsert" /\ calls'[c].pc # "upsert"

\* C14: however on_send_task and on_send_task_subscribe calls on one task id
\* interleave, the Task Store keeps one task per id (one record and one
\* history under the id), each call's upsert_task appends exactly the call's
\* user message to that history and touches no existing task, and no other
\* step adds a user message.
C14_OneTaskOneMessage ==
    [][/\ DOMAIN tasks' = DOMAIN task_messages'
       /\ \A c \in Calls :
            Upserts(c) =>
               /\ DOMAIN tasks' = DOMAIN tasks \cup {calls[c].id}
               /\ task_messages'[calls[c].id] =
                    Append(History(task_messages, calls[c].id), UserMessage(c))
               /\ \A id \in DOMAIN tasks :
                    /\ tasks'[id] = tasks[id]
                    /\ id # calls[c].id => task_messages'[id] = task_messages[id]
       /\ \A id \in DOMAIN task_messages' :
            UserMessages(task_messages'[id])
                 # UserMessages(History(task_messages, id))
              => \E c \in Calls : Upserts(c) /\ calls[c].id = id]_vars

\* C14 witness: an on_send_task and an on_send_task_subscribe on one task id
\* were in flight together, and the task's history holds the user message of
\* each, once, under the one task.
C14_Witness ==
    \E id \in DOMAIN tasks :
        /\ UserMessages(task_messages[id]) = <<UserMessage(1), UserMessage(2)>>
        /\ calls[1].op = "send" /\ calls[2].op = "subscribe"
        /\ calls[1].pc = "invoke" /\ runs[2].pc = "stream"

\* C15 (as claimed): an on_send_task_subscribe that reaches setup_sse_consumer
\* while the task has a live subscriber queue fails with AlreadySubscribed,
\* registers no second queue and launches no second streaming run.
C15_AlreadySubscribed ==
    [][\A c \in Calls :
          (/\ calls[c].op = "subscribe" /\ calls[c].pc = "setup"
           /\ calls'[c].pc = "done"
           /\ task_sse_subscribers[calls[c].id] # {})
             => /\ calls'[c].resp = "AlreadySubscribed"
                /\ UNCHANGED <<task_sse_subscribers, runs>>]_vars

\* The events this step appends to the stream of consumer c.
Appended(c) ==
    SubSeq(received'[c] \o sse_queue'[c], Len(Stream(c)) + 1,
           Len(received'[c] \o sse_queue'[c]))

\* Call c is a consumer attached by on_resubscribe_to_task whose queue is
\* registered.
Attached(c) ==
    calls[c].op = "resubscribe" /\ c \in task_sse_subscribers[calls[c].id]

\* C16: a consumer attached by on_resubscribe_to_task starts with an empty
\* stream (nothing enqueued earlier is replayed); from then on every step
\* appends to its stream exactly what it appends to the stream of every other
\* consumer registered for the task, which is exactly the events the task's
\* streaming run enqueues in that step, in their order.
C16_ResubscribeFutureEvents ==
    [][\A c \in Calls :
          /\ (calls[c].op = "idle" /\ calls'[c].op = "resubscribe")
               => /\ received'[c] \o sse_queue'[c] = <<>>
                  /\ c \in task_sse_subscribers'[calls'[c].id]
          /\ Attached(c)
               => /\ \A o \in task_sse_subscribers[calls[c].id] :
                       Appended(c) = Appended(o)
                  /\ \A r \in Calls :
                       /\ (/\ calls[r].id = calls[c].id
                           /\ runs[r].pc = "emit" /\ runs'[r].pc # "emit")
                             => Appended(c) = <<Head(item_events(runs[r].cur))>>
                       /\ (/\ calls[r].id = calls[c].id
                           /\ runs[r].pc = "emit_status"
                           /\ runs'[r].pc # "emit_status")
                             => Appended(c) = Tail(item_events(runs[r].cur))
          /\ (calls[c].op = "resubscribe" /\ ~Attached(c))
               => Appended(c) = <<>>]_vars

\* C16 witness: a consumer resubscribed after the task's stream had carried
\* events; it has read its stream to the final event, and what it saw is the
\* original subscriber's stream without the events from before the attach.
C16_Witness ==
    \E c, o \in Calls :
        /\ calls[c].op = "resubscribe" /\ calls[o].op = "subscribe"
        /\ calls[c].id = calls[o].id
        /\ sse_queue[c] = <<>> /\ Cardinality(Finals(received[c])) = 1
        /\ Len(Stream(o)) > Len(received[c])
        /\ received[c] = SubSeq(Stream(o), Len(Stream(o)) - Len(received[c]) + 1,
                                Len(Stream(o)))

\* The errors with which on_send_task_subscribe rejects a request:
\* incompatible modes, a push config without url, a url that fails
\* verification.
ValidationErrors == {"IncompatibleModalities", "PushUrlMissing", "PushUrlInvalid"}

\* C17 (as claimed): the crewai on_send_task_subscribe answers every request
\* (here: every request that passes its validation) with
\* StreamingUnsupported, and leaves behind no task in SUBMITTED that no
\* request in flight will advance.
C17_StreamingUnsupported ==
    \A c \in Calls :
        (/\ manager = "crewai" /\ calls[c].op = "subscribe"
         /\ calls[c].pc = "done" /\ calls[c].resp \notin ValidationErrors)
          => /\ calls[c].resp = "StreamingUnsupported"
             /\ \A id \in DOMAIN tasks :
                  (tasks[id].status.state = SUBMITTED /\ calls[c].id = id)
                    => \E d \in Calls : calls[d].id = id /\ calls[d].pc # "done"

\* C18: an on_send_task_subscribe rejected by validation has returned its
\* error, and in every state from then on no queue is registered for it, no
\* streaming run was launched for it, and its stream holds no event.
C18_ValidationErrorsReturned ==
    \A c \in Calls :
        (calls[c].op = "subscribe" /\ calls[c].resp \in ValidationErrors)
          => /\ calls[c].pc = "done"
             /\ \A id \in TaskIds : c \notin task_sse_subscribers[id]
             /\ runs[c] = NoRun
             /\ Stream(c) = <<>>

\* C18 witness: a subscription was rejected for its unverifiable push URL,
\* and a later subscription to the same task id has streamed events, none of
\* which reached the rejected request.
C18_Witness ==
    /\ calls[1].op = "subscribe" /\ calls[1].resp = "PushUrlInvalid"
    /\ calls[2].op = "subscribe" /\ calls[2].id = calls[1].id
    /\ Len(received[2]) >= 2

\* C19 (as claimed): in the synchronous on_send_task of the langgraph
\* manager, with a push config registered: the WORKING notification is sent
\* before the agent is invoked; the final notification carries the outcome
\* already stored and precedes the response; and every accepted request ends
\* having sent exactly two notifications, WORKING first, with its response
\* returned.
C19_SyncOrder ==
    [][\A c \in Calls :
          (manager = "langgraph" /\ calls'[c].op = "send")
            => /\ (calls[c].agent = "none" /\ calls'[c].agent # "none"
                      /\ has_push_notification_info(calls[c].id))
                    => (notified[c] # <<>> /\ notified[c][1].state = WORKING)
               /\ Len(notified'[c]) > Len(notified[c]) /\ Len(notified[c]) >= 1
                    => /\ calls[c].resp # "task"
                       /\ calls[c].agent # "none"
                       /\ notified'[c][Len(notified'[c])].state
                            = calls[c].task.status.state
               /\ (calls[c].pc \notin {"idle", "push", "done"}
                      /\ calls'[c].pc = "done" /\ notified'[c] # <<>>)
                    => /\ calls'[c].resp = "task"
                       /\ Len(notified'[c]) = 2
                       /\ notified'[c][1].state = WORKING]_vars

\* Call c was the first to submit its task id.
FirstOn(c) ==
    /\ calls[c].id \in DOMAIN task_messages
    /\ Head(task_messages[calls[c].id]) = UserMessage(c)

\* No other call names the task id of call c.
AloneOn(c) == \A d \in Calls \ {c} : calls[d].id # calls[c].id

\* C20: a synchronous on_send_task (langgraph) that was the first to submit
\* its task id and whose agent result is 'completed' returns a task in
\* COMPLETED with exactly one artifact, the one made of that result; when the
\* result is 'input_required' it returns the task in INPUT_REQUIRED with the
\* agent's message as status message and no artifact.  With no other request
\* on the task id, the call does return the task.
C20_SyncResult ==
    \A c \in Calls :
        (/\ manager = "langgraph" /\ calls[c].op = "send" /\ calls[c].pc = "done"
         /\ calls[c].agent \in {"completed", "input_required"} /\ FirstOn(c))
          => /\ AloneOn(c) => calls[c].resp = "task"
             /\ (calls[c].resp = "task" /\ calls[c].agent = "completed")
                  => calls[c].task =
                       Task(TaskStatus(COMPLETED, NoMessage), <<Artifact(c)>>)
             /\ (calls[c].resp = "task" /\ calls[c].agent = "input_required")
                  => calls[c].task =
                       Task(TaskStatus(INPUT_REQUIRED, AgentMessage(c)), <<>>)

\* C20 witness: one first submission returned its COMPLETED task with its
\* one artifact, another returned INPUT_REQUIRED with the agent's message.
C20_Witness ==
    \E c, d \in Calls :
        /\ calls[c].op = "send" /\ calls[c].agent = "completed" /\ FirstOn(c)
        /\ calls[c].resp = "task" /\ calls[c].task.artifacts = <<Artifact(c)>>
        /\ calls[d].op = "send" /\ calls[d].agent = "input_required"
        /\ FirstOn(d) /\ calls[d].resp = "task"
        /\ calls[d].task.status = TaskStatus(INPUT_REQUIRED, AgentMessage(d))

\* C21 (as claimed): when the agent's result has status 'error' the task is
\* driven to ERROR with the agent's message as content: the synchronous
\* on_send_task returns the task in ERROR, and the update a streaming run
\* makes for such a result is ERROR with final=true; it is not INPUT_REQUIRED.
C21_ErrorResultIsError ==
    \A c \in Calls :
        /\ (calls[c].op = "send" /\ calls[c].agent = "error"
            /\ calls[c].resp = "task")
             => /\ calls[c].task.status.state = ERROR
                /\ calls[c].task.status.message = AgentMessage(c)
        /\ (/\ runs[c].pc = "stream"
            /\ "error" \in StreamNext(runs[c].finalYielded, runs[c].nWorking))
             => LET u == stream_update(c, StreamItem("error"))
                IN  /\ u.state = ERROR
                    /\ u.message = AgentMessage(c)
                    /\ u.end_stream

\* C22: no task of either manager is ever in state CANCELED, and no status
\* event, push notification or returned task carries CANCELED.
C22_NeverCanceled ==
    /\ \A id \in DOMAIN tasks : tasks[id].status.state # CANCELED
    /\ \A c \in Calls :
          /\ \A i \in DOMAIN Stream(c) : Stream(c)[i].state # CANCELED
          /\ \A i \in DOMAIN notified[c] : notified[c][i].state # CANCELED
          /\ calls[c].task.status.state # CANCELED

\* C22 witness: every request has been handled to its end, one task was
\* completed and another is left waiting for user input.
C22_Witness ==
    /\ \A c \in Calls : calls[c].pc = "done" /\ runs[c].pc \in {"none", "done"}
    /\ \E id1, id2 \in DOMAIN tasks :
          /\ tasks[id1].status.state = COMPLETED
          /\ tasks[id2].status.state = INPUT_REQUIRED

\* The event sequence returned to subscriber c has ended: the last event it
\* delivered is a status event with final=true or an InternalError, nothing
\* is waiting behind it and the queue is dropped.
StreamEnded(c) ==
    /\ received[c] # <<>>
    /\ EndsStream(received[c][Len(received[c])])
    /\ sse_queue[c] = <<>>
    /\ c \notin task_sse_subscribers[calls[c].id]

\* C23: once the agent's stream of the run launched by on_send_task_subscribe
\* call c has terminated (exhausted or raised), the event sequence returned
\* to c eventually ends with a final status event or an InternalError, and
\* from then on nothing further is delivered on it.
C23_SubscriberStreamsEnd ==
    /\ \A c \in Calls : (runs[c].pc = "done") ~> StreamEnded(c)
    /\ [][\A c \in Calls :
             StreamEnded(c)
               => (received'[c] = received[c] /\ sse_queue'[c] = <<>>)]_vars

\* C23 witness: one subscriber's run ended by a fault and its stream ended
\* with the InternalError; another's ran to exhaustion and its stream ended
\* with the final status event.
C23_Witness ==
    \E c, d \in Calls :
        /\ runs[c].pc = "done" /\ runs[c].fault /\ StreamEnded(c)
        /\ received[c][Len(received[c])].kind = "error"
        /\ runs[d].pc = "done" /\ ~runs[d].fault /\ StreamEnded(d)
        /\ received[d][Len(received[d])].kind = "status"

\* C24 (as claimed): an operation that set its task to WORKING never finishes
\* with the stored task still in WORKING: when on_send_task has ended
\* (returned or raised), and when a streaming run has ended (its stream
\* exhausted or failed), the task it worked on alone has left WORKING.
C24_LeavesWorking ==
    \A c \in Calls :
        (/\ AloneOn(c)
         /\ calls[c].id \in DOMAIN tasks
         /\ \/ calls[c].op = "send" /\ calls[c].pc = "done"
            \/ calls[c].op = "subscribe" /\ runs[c].pc \in {"done", "crashed"})
          => tasks[calls[c].id].status.state # WORKING

\* The status event of the update a streaming run holds.
StatusEventOf(u) == TaskStatusUpdateEvent(u.state, u.end_stream)

\* C25: in a streaming run the store is updated before the event is
\* enqueued: the step in which update_store returns leaves the task with the
\* item's status and enqueues nothing; a status event is appended to a
\* task's queues only by a run on that task whose update_store for that
\* status has returned; and the run gets from an update to its next item
\* only through the notification and the enqueue of the update's status
\* event on every queue registered for the task.
C25_StoreBeforeEvent ==
    [][\A r \in Calls :
          /\ (runs[r].pc = "stream" /\ runs'[r].pc \in {"notify", "emit"})
               => /\ tasks'[calls[r].id].status =
                       TaskStatus(runs'[r].cur.state, runs'[r].cur.message)
                  /\ UNCHANGED sse_queue
          /\ (runs[r].pc = "notify" /\ runs'[r] # runs[r])
               => runs' = [runs EXCEPT ![r].pc = "emit"]
          /\ (runs[r].pc = "emit" /\ runs'[r] # runs[r])
               => /\ runs'[r].pc \in {"emit_status", "stream"}
                  /\ runs'[r].cur = runs[r].cur
          /\ (runs[r].pc \in {"emit", "emit_status"} /\ runs'[r].pc = "stream")
               => \A o \in task_sse_subscribers[calls[r].id] :
                      /\ Appended(o) # <<>>
                      /\ Appended(o)[Len(Appended(o))] = StatusEventOf(runs[r].cur)
          /\ \A i \in DOMAIN Appended(r) :
               Appended(r)[i].kind = "status"
                 => \E p \in Calls :
                       /\ calls[p].id = calls[r].id
                       /\ runs[p].pc \in {"emit", "emit_status"}
                       /\ runs'[p].pc = "stream"
                       /\ Appended(r)[i] = StatusEventOf(runs[p].cur)]_vars

\* C25 witness: a run has stored INPUT_REQUIRED for its final item and has
\* not yet enqueued the event: the store is ahead of the subscriber's stream,
\* which so far carries the WORKING event of the item before.
C25_Witness ==
    \E c \in Calls :
        /\ runs[c].pc = "emit" /\ runs[c].cur.state = INPUT_REQUIRED
        /\ tasks[calls[c].id].status.state = INPUT_REQUIRED
        /\ Stream(c) = <<TaskStatusUpdateEvent(WORKING, FALSE)>>

\* The positions of the COMPLETED, final=true status events in a stream.
CompletedFinals(s) ==
    {i \in DOMAIN s : s[i] = TaskStatusUpdateEvent(COMPLETED, TRUE)}

\* The positions of the artifact events in a stream.
ArtifactEvents(s) == {i \in DOMAIN s : s[i].kind = "artifact"}

\* In stream s every artifact event is directly followed by the COMPLETED
\* final status event (once that is enqueued), and nothing else is.
ArtifactThenCompleted(s) ==
    /\ \A i \in CompletedFinals(s) : i > 1 /\ (i - 1) \in ArtifactEvents(s)
    /\ \A i \in ArtifactEvents(s) : i < Len(s) => (i + 1) \in CompletedFinals(s)

\* C26 (as claimed): the artifact event is enqueued strictly before the
\* COMPLETED final status event, so every consumer of the task's events that
\* has the final event in its stream has the artifact event right before it;
\* a run that ended in INPUT_REQUIRED has put no artifact event on its
\* subscriber's stream.
C26_ArtifactBeforeFinal ==
    \A c \in Calls :
        /\ ArtifactThenCompleted(Stream(c))
        /\ (calls[c].op = "subscribe" /\ runs[c].cur.state = INPUT_REQUIRED)
             => ArtifactEvents(Stream(c)) = {}

\* C26 (amended): the run enqueues the artifact event strictly before the
\* COMPLETED final status event: the subscriber it was launched for, and
\* every consumer registered when the artifact event was enqueued, has the
\* artifact right before the final event.  The two enqueues are two awaits: a
\* consumer that resubscribes between them gets the final event as the first
\* and only event of its stream, without the artifact.  A run that ended in
\* INPUT_REQUIRED has put no artifact event on its subscriber's stream.
C26_ArtifactBeforeFinalIfRegistered ==
    \A c \in Calls :
        /\ calls[c].op = "subscribe" => ArtifactThenCompleted(Stream(c))
        /\ calls[c].op = "resubscribe"
             => \/ ArtifactThenCompleted(Stream(c))
                \/ Stream(c) = <<TaskStatusUpdateEvent(COMPLETED, TRUE)>>
        /\ (calls[c].op = "subscribe" /\ runs[c].cur.state = INPUT_REQUIRED)
             => ArtifactEvents(Stream(c)) = {}

\* C26 witness: a run completed; its subscriber has read the artifact event
\* and then the final event, and a consumer that resubscribed between the
\* two enqueues has read the final event alone.
C26_Witness ==
    \E c, d \in Calls :
        /\ calls[c].op = "subscribe" /\ runs[c].pc = "done"
        /\ received[c] = <<TaskArtifactUpdateEvent,
                           TaskStatusUpdateEvent(COMPLETED, TRUE)>>
        /\ calls[d].op = "resubscribe" /\ calls[d].id = calls[c].id
        /\ received[d] = <<TaskStatusUpdateEvent(COMPLETED, TRUE)>>

\* How many times message m stands in the histories of the Task Store.
Occurrences(m) ==
    Cardinality({p \in UNION {{<<id, i>> : i \in DOMAIN task_messages[id]} :
                                  id \in DOMAIN task_messages} :
                    task_messages[p[1]][p[2]] = m})

\* C27 (as claimed): a request rejected because its push URL failed
\* verification has left the Task Store as it was, in on_send_task and in
\* on_send_task_subscribe: its message is in no history, the task it names
\* was not created by it, and the agent was never invoked for it.
C27_RejectedLeavesStore ==
    \A c \in Calls :
        calls[c].resp = "PushUrlInvalid"
          => /\ calls[c].agent = "none" /\ runs[c] = NoRun
             /\ Occurrences(UserMessage(c)) = 0
             /\ AloneOn(c) => calls[c].id \notin DOMAIN tasks

\* C27 (amended): the agent is never invoked for a request rejected because
\* its push URL failed verification.  on_send_task rejects before it touches
\* the Task Store: no task created, no message appended.
\* on_send_task_subscribe rejects after its upsert_task: the request's
\* message is in the task's history (once), and a task that did not exist has
\* been created and is left in SUBMITTED with no artifacts.
C27_RejectedSendLeavesStore ==
    \A c \in Calls :
        calls[c].resp = "PushUrlInvalid"
          => /\ calls[c].agent = "none" /\ runs[c] = NoRun
             /\ notified[c] = <<>>
             /\ calls[c].op = "send"
                  => /\ Occurrences(UserMessage(c)) = 0
                     /\ AloneOn(c) => calls[c].id \notin DOMAIN tasks
             /\ calls[c].op = "subscribe"
                  => /\ Occurrences(UserMessage(c)) = 1
                     /\ calls[c].id \in DOMAIN tasks
                     /\ UserMessage(c) \in
                          {task_messages[calls[c].id][i] :
                              i \in DOMAIN task_messages[calls[c].id]}
                     /\ AloneOn(c)
                          => /\ tasks[calls[c].id] =
                                  Task(TaskStatus(SUBMITTED, NoMessage), <<>>)
                             /\ task_messages[calls[c].id] = <<UserMessage(c)>>

\* C27 witness: an on_send_task and an on_send_task_subscribe, for different
\* tasks, were both rejected for their push URL: only the subscribe request's
\* task exists.
C27_Witness ==
    \E c, d \in Calls :
        /\ calls[c].op = "send" /\ calls[c].resp = "PushUrlInvalid"
        /\ calls[d].op = "subscribe" /\ calls[d].resp = "PushUrlInvalid"
        /\ calls[c].id # calls[d].id
        /\ DOMAIN tasks = {calls[d].id}

\* The step is a direct update_store call for a task that exists.
UpdatesExisting == ret' # ret /\ ret'.op = "update_store" /\ ret'.known

\* The effect the step's update_store(id, status, artifacts) is to have: the
\* task's status replaced, the artifacts appended in order at the end (none
\* given: the sequence as it was), status.message appended to the task's
\* history when present, every other task and history as before.
UpdateEffect ==
    LET id == ret'.id
    IN  /\ ret'.err = "ok"
        /\ DOMAIN tasks' = DOMAIN tasks
        /\ DOMAIN task_messages' = DOMAIN task_messages
        /\ tasks'[id].status = ret'.status
        /\ tasks'[id].artifacts = tasks[id].artifacts \o ret'.artifacts
        /\ task_messages'[id] =
             IF ret'.status.message # NoMessage
             THEN Append(task_messages[id], ret'.status.message)
             ELSE task_messages[id]
        /\ \A o \in DOMAIN tasks \ {id} :
             tasks'[o] = tasks[o] /\ task_messages'[o] = task_messages[o]

====
